---- MODULE Spec2Model ----
(***************************************************************************)
(* Model of lib/index.js of kuzzle-plugin-sample-custom-policies: the      *)
(* MyPoliciesPlugin pipes assertCanUpdate, addQueryFilter, assertCanRead   *)
(* and filterMgetResult.  A behaviour is one invocation of one plugin      *)
(* method on a request object; the host's store                            *)
(* (context.accessors.execute) and the pipe callback are the environment.  *)
(***************************************************************************)
EXTENDS Integers, Sequences, FiniteSets, TLC

VARIABLES
    pc,        \* "idle" | "pending" | "fulfilled" | "rejected" | "done"
    event,     \* the pipe event the host triggers
    method,    \* the plugin method being run
    request,   \* the request object the method works on (mutated in place)
    input,     \* the request as it was handed to the method
    reads,     \* number of context.accessors.execute calls of this invocation
    read,      \* how the store read settled: [state, doc, err]
    chain,     \* the value the promise chain currently carries (res or err)
    calls,     \* the invocations of callback(err, request), in order
    thrown     \* error that escaped the method (throw / unhandled rejection)

vars == <<pc, event, method, request, input, reads, read, chain, calls, thrown>>

----------------------------------------------------------------------------
(* Bounds *)

MaxHits == 3

----------------------------------------------------------------------------
(* JavaScript values *)

Null == [type |-> "null"]
Undefined == [type |-> "undefined"]

\* `_source._kuzzle_info` missing: reading `.author` of it is a TypeError
NoInfo == "<no _kuzzle_info>"

UserIds == {"u1", "u2", "-1"}
Authors == UserIds
ProfileSets == {{"default"}, {"default", "admin"}}
Users == [_id : UserIds, profileIds : ProfileSets]

DocIds == {"d1", "d2"}
Tags == {"red", "blue"}

\* a document as the store returns it (get result / mget hit)
Documents == [_id : DocIds, author : Authors \cup {NoInfo}]

\* a stored document as a query sees it
Indexed ==
    { ("_kuzzle_info.author" :> a) @@ ("tag" :> t) : a \in Authors, t \in Tags }

\* the hits of an mget result
HitLists == UNION { [1..n -> Documents] : n \in 0..MaxHits }

NoError == [name |-> "null", status |-> "undefined", message |-> <<>>]
TypeError == [name |-> "TypeError", status |-> "undefined", message |-> <<>>]

\* rejections of context.accessors.execute
StoreErrors ==
    { [name |-> "NotFoundError", status |-> "404", message |-> <<>>],
      [name |-> "ServiceUnavailableError", status |-> "503", message |-> <<>>],
      [name |-> "Error", status |-> "undefined", message |-> <<>>] }

\* what a call of the pipe callback can do: return (NoError) or throw
CallbackThrows ==
    { NoError,
      [name |-> "CallbackError", status |-> "404", message |-> <<>>],
      [name |-> "CallbackError", status |-> "undefined", message |-> <<>>] }

----------------------------------------------------------------------------
(* Elasticsearch queries *)

Term(f, v) == [type |-> "term", field |-> f, value |-> v]
Bool(m, f) == [type |-> "bool", must |-> m, filter |-> f]

InboundQueries ==
    { Term("tag", t) : t \in Tags } \cup { Term("_kuzzle_info.author", "u1") }

RECURSIVE Matches(_, _)
Matches(q, d) ==
    CASE q.type = "term" -> d[q.field] = q.value
      [] q.type = "bool" ->
            /\ (q.must # Undefined => Matches(q.must, d))
            /\ (q.filter # Undefined => Matches(q.filter, d))
      [] OTHER -> TRUE

Truthy(v) == v # Null /\ v # Undefined

Bodies == {Null} \cup [type : {"object"},
                       query : InboundQueries \cup {Undefined},
                       size : {Undefined, [type |-> "number", value |-> "10"]}]

EmptyObject == [type |-> "object", query |-> Undefined, size |-> Undefined]

----------------------------------------------------------------------------
(* The plugin *)

pipes ==
    [ e \in { "document:beforeCount", "document:beforeSearch",
              "document:beforeCreateOrReplace", "document:beforeReplace",
              "document:beforeUpdate", "document:beforeDelete",
              "document:beforeDeleteByQuery", "document:afterGet",
              "document:afterMGet" } |->
        CASE e \in {"document:beforeCount", "document:beforeSearch",
                    "document:beforeDeleteByQuery"} -> "addQueryFilter"
          [] e \in {"document:beforeCreateOrReplace", "document:beforeReplace",
                    "document:beforeUpdate", "document:beforeDelete"}
               -> "assertCanUpdate"
          [] e = "document:afterGet" -> "assertCanRead"
          [] e = "document:afterMGet" -> "filterMgetResult" ]

ActionOf(e) ==
    CASE e = "document:beforeCount" -> "count"
      [] e = "document:beforeSearch" -> "search"
      [] e = "document:beforeCreateOrReplace" -> "createOrReplace"
      [] e = "document:beforeReplace" -> "replace"
      [] e = "document:beforeUpdate" -> "update"
      [] e = "document:beforeDelete" -> "delete"
      [] e = "document:beforeDeleteByQuery" -> "deleteByQuery"
      [] e = "document:afterGet" -> "get"
      [] e = "document:afterMGet" -> "mGet"

\* the request object of event e
Request(e, user, id, body, result) ==
    [ user |-> user, controller |-> "document", action |-> ActionOf(e),
      index |-> "idx", collection |-> "col", _id |-> id,
      body |-> body, result |-> result ]

Call(err, req) == [err |-> err, request |-> req]

\* mutation: the privilege test looks at the user id instead of the profiles
isAdmin_ById(user) == user._id = "admin"

isAdmin(user) == "admin" \in user.profileIds

\* mutation: the ownership test is inverted
isAuthor_Inverted(author, user) == author # user._id

isAuthor(author, user) == author = user._id

\* mutation: every store failure is taken for a not-found
isNotFound_Always(err) == TRUE

isNotFound(err) == err.status = "404"

\* mutation: the anonymous user is not told apart
_denyRequest_AlwaysForbidden(req) ==
    [ name |-> "ForbiddenError", status |-> "403",
      message |-> << "Forbidden action", req.index, req.collection,
                     req.controller, req.action, req.user._id >> ]

_denyRequest(req) ==
    IF req.user._id = "-1"
    THEN [ name |-> "UnauthorizedError", status |-> "401",
           message |-> << "Unauthorized action", req.index, req.collection,
                          req.controller, req.action, "anonymous" >> ]
    ELSE [ name |-> "ForbiddenError", status |-> "403",
           message |-> << "Forbidden action", req.index, req.collection,
                          req.controller, req.action, req.user._id >> ]

\* the requests the host can hand to the pipe of event e
Requests(e) ==
    CASE pipes[e] = "assertCanUpdate" ->
            { Request(e, u, id, Null, Null) : u \in Users, id \in DocIds }
      [] pipes[e] = "addQueryFilter" ->
            { Request(e, u, Null, b, Null) : u \in Users, b \in Bodies }
      [] pipes[e] = "assertCanRead" ->
            { Request(e, u, d._id, Null, d) : u \in Users, d \in Documents }
      [] pipes[e] = "filterMgetResult" ->
            { Request(e, u, Null, Null, [hits |-> h]) : u \in Users, h \in HitLists }

Init ==
    /\ pc = "idle"
    /\ event \in DOMAIN pipes
    /\ method = "none"
    /\ request \in Requests(event)
    /\ input = request
    /\ reads = 0
    /\ read = [state |-> "none", doc |-> Null, err |-> NoError]
    /\ chain = Null
    /\ calls = << >>
    /\ thrown = NoError

\* the host runs the pipe m of the event on the request
Enter(m) ==
    /\ pc = "idle"
    /\ pipes[event] = m
    /\ method' = m
    /\ UNCHANGED <<event, input>>

----------------------------------------------------------------------------
(* assertCanRead *)

assertCanRead(req, t) ==
    /\ Enter("assertCanRead")
    /\ pc' = "done"
    /\ UNCHANGED <<request, reads, read, chain>>
    /\ IF isAdmin(req.user)
       THEN calls' = << Call(NoError, req) >> /\ thrown' = t
       ELSE IF req.result.author = NoInfo
       THEN calls' = << >> /\ thrown' = TypeError
       ELSE IF ~isAuthor(req.result.author, req.user)
       THEN calls' = << Call(_denyRequest(req), req) >> /\ thrown' = t
       ELSE calls' = << Call(NoError, req) >> /\ thrown' = t

----------------------------------------------------------------------------
(* filterMgetResult *)

\* mutation: nothing is filtered out
filterHits_KeepAll(hits, user) == hits

\* mutation: the comparison of the filter is inverted
filterHits_Others(hits, user) ==
    SelectSeq(hits, LAMBDA hit : hit.author # user._id)

filterHits(hits, user) ==
    SelectSeq(hits, LAMBDA hit : isAuthor(hit.author, user))

filterMgetResult(req, t) ==
    /\ Enter("filterMgetResult")
    /\ pc' = "done"
    /\ UNCHANGED <<reads, read, chain>>
    /\ IF isAdmin(req.user)
       THEN /\ request' = req
            /\ calls' = << Call(NoError, req) >>
            /\ thrown' = t
       ELSE IF \E i \in 1..Len(req.result.hits) : req.result.hits[i].author = NoInfo
       THEN /\ request' = req
            /\ calls' = << >>
            /\ thrown' = TypeError
       ELSE /\ request' = [req EXCEPT !.result.hits = filterHits(@, req.user)]
            /\ calls' = << Call(NoError, request') >>
            /\ thrown' = t

----------------------------------------------------------------------------
(* addQueryFilter *)

queryObject(user) ==
    Bool(Undefined, Bool(Term("_kuzzle_info.author", user._id), Undefined))

\* lines 142-144: `if (request.input.body) { request.input.body = {}; }`
resetBody(body) == IF Truthy(body) THEN EmptyObject ELSE body

\* lines 145-148, on a body that is an object
injectQuery(body, user) ==
    [body EXCEPT !.query =
        IF Truthy(body.query)
        THEN [queryObject(user) EXCEPT !.must = body.query]
        ELSE queryObject(user)]

addQueryFilter(req, t) ==
    /\ Enter("addQueryFilter")
    /\ pc' = "done"
    /\ UNCHANGED <<reads, read, chain>>
    /\ IF isAdmin(req.user)
       THEN /\ request' = req
            /\ calls' = << Call(NoError, req) >>
            /\ thrown' = t
       ELSE LET body == resetBody(req.body) IN
            IF body \in {Null, Undefined}
            THEN \* reading `.query` of null
                 /\ request' = [req EXCEPT !.body = body]
                 /\ calls' = << >>
                 /\ thrown' = TypeError
            ELSE /\ request' = [req EXCEPT !.body = injectQuery(body, req.user)]
                 /\ calls' = << Call(NoError, request') >>
                 /\ thrown' = t

----------------------------------------------------------------------------
(* assertCanUpdate *)

assertCanUpdate(req, t) ==
    /\ Enter("assertCanUpdate")
    /\ UNCHANGED <<request, chain>>
    /\ IF isAdmin(req.user)
       THEN /\ pc' = "done"
            /\ UNCHANGED <<reads, read>>
            /\ calls' = << Call(NoError, req) >>
            /\ thrown' = t
       ELSE \* context.accessors.execute(getRequest)
            /\ pc' = "pending"
            /\ reads' = reads + 1
            /\ read' = [state |-> "pending", doc |-> Null, err |-> NoError]
            /\ calls' = << >>
            /\ thrown' = NoError

\* the store answers the get with a document
executeResolves(doc) ==
    /\ pc = "pending"
    /\ doc._id = request._id
    /\ pc' = "fulfilled"
    /\ read' = [state |-> "fulfilled", doc |-> doc, err |-> NoError]
    /\ chain' = doc
    /\ UNCHANGED <<event, method, request, input, reads, calls, thrown>>

\* the store fails the get
executeRejects(err) ==
    /\ pc = "pending"
    /\ pc' = "rejected"
    /\ read' = [state |-> "rejected", doc |-> Null, err |-> err]
    /\ chain' = err
    /\ UNCHANGED <<event, method, request, input, reads, calls, thrown>>

\* the decision of the .then handler on a document that has _kuzzle_info
thenDecision(res, req) ==
    IF ~isAuthor(res.author, req.user) THEN _denyRequest(req) ELSE NoError

\* the .then handler (lines 95-101); what it throws rejects the chain
onFulfilled(t) ==
    /\ pc = "fulfilled"
    /\ IF chain.author = NoInfo
       THEN /\ calls' = calls
            /\ pc' = "rejected"
            /\ chain' = TypeError
       ELSE /\ calls' = Append(calls, Call(thenDecision(chain, request), request))
            /\ IF t # NoError
               THEN pc' = "rejected" /\ chain' = t
               ELSE pc' = "done" /\ chain' = Null
    /\ UNCHANGED <<event, method, request, input, reads, read, thrown>>

\* the decision of the .catch handler
\* mutation: a not-found is propagated like any other failure
catchDecision_Propagate(err) == err

\* the decision of the .catch handler
catchDecision(err) == IF isNotFound(err) THEN NoError ELSE err

\* the .catch handler (lines 102-110); what it throws is an unhandled rejection
onRejected(t) ==
    /\ pc = "rejected"
    /\ calls' = Append(calls, Call(catchDecision(chain), request))
    /\ thrown' = t
    /\ pc' = "done"
    /\ chain' = Null
    /\ UNCHANGED <<event, method, request, input, reads, read>>

----------------------------------------------------------------------------

Next ==
    \/ \E t \in CallbackThrows : assertCanUpdate(request, t)
    \/ \E d \in Documents : executeResolves(d)
    \/ \E err \in StoreErrors : executeRejects(err)
    \/ \E t \in CallbackThrows : onFulfilled(t)
    \/ \E t \in CallbackThrows : onRejected(t)
    \/ \E t \in CallbackThrows : addQueryFilter(request, t)
    \/ \E t \in CallbackThrows : assertCanRead(request, t)
    \/ \E t \in CallbackThrows : filterMgetResult(request, t)

Spec == Init /\ [][Next]_vars

----------------------------------------------------------------------------
(* Properties *)

NonAdmin == "admin" \notin input.user.profileIds

Actor == input.user._id

\* the error kind a denial of the actor must carry
DenyKind == IF Actor = "-1" THEN "UnauthorizedError" ELSE "ForbiddenError"

\* the store read of assertCanUpdate returned a document with ownership metadata
ReadSucceeded ==
    /\ method = "assertCanUpdate"
    /\ NonAdmin
    /\ read.state = "fulfilled"
    /\ read.doc.author # NoInfo

\* C1: assertCanUpdate, non-admin, store read succeeded with a document that
\* has an author: once the .then handler has run, a decision was delivered
\* and the first one carries the unchanged request, with no error when the
\* author is the actor, an UnauthorizedError when it is not and the actor is
\* '-1', and a ForbiddenError when it is not and the actor is anyone else.
C1_PreMutationOwnership ==
    (ReadSucceeded /\ pc \in {"rejected", "done"}) =>
        /\ Len(calls) >= 1
        /\ calls[1].request = input
        /\ IF read.doc.author = Actor
           THEN calls[1].err = NoError
           ELSE calls[1].err.name = DenyKind

C1_Witness ==
    /\ ReadSucceeded
    /\ pc = "done"
    /\ Actor = "-1"
    /\ read.doc.author = "u1"
    /\ calls[1].err.name = "UnauthorizedError"

\* C2: for an actor with the admin profile every operation issues no store
\* read, leaves the request as it was, and ends with exactly one callback
\* call that carries no error and the unchanged request.
C2_AdminPassThrough ==
    ("admin" \in input.user.profileIds) =>
        /\ reads = 0
        /\ read.state = "none"
        /\ request = input
        /\ pc \in {"idle", "done"}
        /\ (pc = "done" => calls = << [err |-> NoError, request |-> input] >>)

C2_Witness ==
    /\ "admin" \in input.user.profileIds
    /\ pc = "done"
    /\ method = "filterMgetResult"
    /\ Len(input.result.hits) = 2
    /\ input.result.hits[1].author # Actor
    /\ input.result.hits[2].author = NoInfo
    /\ calls[1].request.result.hits = input.result.hits

HasInboundQuery ==
    /\ input.body # Null
    /\ input.body.query # Undefined

\* the query the callback received
DeliveredQuery == calls[1].request.body.query

OwnedBy(d, id) == d["_kuzzle_info.author"] = id

\* C3: addQueryFilter, non-admin, request with an inbound query: the
\* callback gets no error and a query that a document matches exactly when
\* it matches the inbound query and is authored by the actor.
C3_InboundQueryAnded ==
    (method = "addQueryFilter" /\ NonAdmin /\ HasInboundQuery /\ pc = "done") =>
        /\ Len(calls) = 1
        /\ calls[1].err = NoError
        /\ \A d \in Indexed :
              Matches(DeliveredQuery, d)
                  <=> (Matches(input.body.query, d) /\ OwnedBy(d, Actor))

\* C8: addQueryFilter, non-admin, request without inbound filter (no body,
\* or a body without query): the operation does not throw, the callback is
\* called once without error, and the delivered query matches exactly the
\* documents authored by the actor.
C8_OwnershipOnly ==
    (method = "addQueryFilter" /\ NonAdmin /\ ~HasInboundQuery /\ pc = "done") =>
        /\ thrown.name # "TypeError"
        /\ Len(calls) = 1
        /\ calls[1].err = NoError
        /\ \A d \in Indexed : Matches(DeliveredQuery, d) <=> OwnedBy(d, Actor)

\* filterMgetResult of a non-admin actor has run
MgetRan == method = "filterMgetResult" /\ NonAdmin /\ pc = "done"

InHits == input.result.hits
OutHits == calls[1].request.result.hits

\* positions of the input hits authored by the actor
OwnedAt == { i \in 1..Len(InHits) : InHits[i].author = Actor }

\* position in the input of the j-th hit authored by the actor
NthOwned(j) ==
    CHOOSE i \in OwnedAt : Cardinality({ k \in OwnedAt : k <= i }) = j

\* a not-found placeholder for the hit h
Placeholder(h) == [_id |-> h._id, author |-> NoInfo]

\* C4 as stated: filterMgetResult, non-admin: the delivered hits have the
\* length of the input hits and each position holds the original hit
\* (authored by the actor) or a not-found placeholder with the same id.
C4_SameLengthPlaceholders ==
    (MgetRan /\ Len(calls) = 1) =>
        /\ Len(OutHits) = Len(InHits)
        /\ \A i \in 1..Len(InHits) :
              \/ OutHits[i] = InHits[i] /\ InHits[i].author = Actor
              \/ OutHits[i] = Placeholder(InHits[i])

\* C4 amended: filterMgetResult, non-admin: if a hit lacks ownership
\* metadata the operation throws a TypeError and delivers nothing;
\* otherwise the delivered hits are the input hits authored by the actor,
\* each one the original element, in the original order, the other hits
\* being removed: the length is the number of owned hits.
C4_OwnedSubsequence ==
    MgetRan =>
        IF \E i \in 1..Len(InHits) : InHits[i].author = NoInfo
        THEN calls = << >> /\ thrown = TypeError
        ELSE /\ Len(calls) = 1
             /\ calls[1].err = NoError
             /\ Len(OutHits) = Cardinality(OwnedAt)
             /\ Len(OutHits) <= Len(InHits)
             /\ \A j \in 1..Len(OutHits) : OutHits[j] = InHits[NthOwned(j)]

C4_Witness ==
    /\ MgetRan
    /\ Actor = "u1"
    /\ Len(InHits) = 3
    /\ InHits[1].author = "u1"
    /\ InHits[2].author = "u2"
    /\ InHits[3].author = "u1"
    /\ Len(calls) = 1
    /\ Len(OutHits) = 2

ReadFailed ==
    /\ method = "assertCanUpdate"
    /\ NonAdmin
    /\ read.state = "rejected"

\* C6: assertCanUpdate, non-admin, store read rejected with status 404:
\* the callback is called once, with no error and the unchanged request.
C6_NotFoundAllows ==
    (ReadFailed /\ read.err.status = "404" /\ pc = "done") =>
        calls = << [err |-> NoError, request |-> input] >>

C6_Witness ==
    /\ ReadFailed
    /\ read.err.status = "404"
    /\ pc = "done"
    /\ Actor = "-1"
    /\ calls[1].err = NoError

\* C7: assertCanUpdate, non-admin, store read rejected with another status
\* than 404: the callback is called once, with that very error.
C7_BackendErrorPropagated ==
    (ReadFailed /\ read.err.status # "404" /\ pc = "done") =>
        calls = << [err |-> read.err, request |-> input] >>

C7_Witness ==
    /\ ReadFailed
    /\ read.err.name = "ServiceUnavailableError"
    /\ pc = "done"
    /\ calls[1].err.name = "ServiceUnavailableError"

C10_OneReadOneDecision ==
    (method = "assertCanUpdate" /\ NonAdmin) =>
        /\ reads <= 1
        /\ Len(calls) <= 1
        /\ (Len(calls) >= 1 => read.state \in {"fulfilled", "rejected"})
        /\ (pc = "done" => reads = 1 /\ Len(calls) = 1)

====
